---------------------------- MODULE Spec2Model ----------------------------
(***************************************************************************)
(* A model of ilias_fuse/filesystem.py: the lazily realized directory     *)
(* tree (IliasHttpDirectory, _entry_to_node) and the random-access read    *)
(* adapter over a sequential HTTP download (IliasHttpFile and its Handle). *)
(*                                                                         *)
(* The specifications share the variables:                                 *)
(*   SpecFile  the read handles: opens and reads,                          *)
(*   SpecNode  the file nodes: opens, size probes, reads, releases,        *)
(*   SpecDir   the directory tree and the lookups/listings run on it,      *)
(*   SpecTree  one tree of directory and file nodes, with failing calls,   *)
(*   SpecAttr  the directory nodes under lookup, opendir and getattr.      *)
(***************************************************************************)
EXTENDS Integers, Sequences, FiniteSets, TLC

VARIABLES
    \* ---- file side ----
    fsize,          \* IliasHttpFile.size per file node: None or an int
    handles,        \* every IliasHttpFile.Handle created so far, in creation order
    get_requests,   \* number of session.get(url, stream=True) calls per file node
    head_requests,  \* number of session.head(url) calls per file node
    last,           \* what the latest file operation did and returned
    \* ---- directory side ----
    mount,          \* where main() is: "starting", "mounted" or "exited"
    contents,       \* IliasHttpDirectory.contents per directory node
    enum_calls,     \* number of crawler enumeration calls made per directory node
    realized_ok,    \* the directory nodes on which a realize_folder() has returned
    enum_failed,    \* those whose latest realize_folder() died in the enumeration
    tasks           \* the lookup/opendir coroutines: where each is, what it got

fileVars == <<fsize, handles, get_requests, head_requests, last>>
dirVars  == <<mount, contents, enum_calls, realized_ok, enum_failed, tasks>>
vars     == <<fsize, handles, get_requests, head_requests, last,
              mount, contents, enum_calls, realized_ok, enum_failed, tasks>>

\* self.size = None: no size known yet (a known size is never negative).
None == -1

Min(a, b) == IF a <= b THEN a ELSE b

(***************************************************************************)
(*                              FILE SIDE                                  *)
(***************************************************************************)

\* iter_content(chunk_size=128)
ChunkSize == 128

\* The most handles the model opens.
MaxHandles == 2

\* The remote files behind the file nodes: an empty one, one whose last chunk
\* is short, one that is a whole number of chunks.
Files == {1, 2, 3}

SourceLen(f) ==
    CASE f = 1 -> 0
      [] f = 2 -> ChunkSize + 5
      [] OTHER -> 2 * ChunkSize

\* Whether the server answers a HEAD request for file f with a Content-Length.
HasContentLength(f) == f # 1

(***************************************************************************)
(* Byte strings.  A byte of a remote file is identified by the file and    *)
(* its position in it, and a byte string is kept as the sequence of the    *)
(* runs [f, lo, hi) of consecutive source bytes it is made of: no run is   *)
(* empty and no two neighbouring runs are contiguous, so that two byte     *)
(* strings are equal exactly when they hold the same bytes in the same     *)
(* order.                                                                  *)
(***************************************************************************)
Run(f, lo, hi) == IF lo < hi THEN <<[f |-> f, lo |-> lo, hi |-> hi]>> ELSE <<>>

RunLen(r) == r.hi - r.lo

\* len(b)
RECURSIVE BytesLen(_)
BytesLen(b) == IF b = <<>> THEN 0 ELSE RunLen(Head(b)) + BytesLen(Tail(b))

\* a + b
Concat(a, b) ==
    IF a = <<>> THEN b
    ELSE IF b = <<>> THEN a
    ELSE LET x == a[Len(a)]
             y == b[1]
         IN  IF x.f = y.f /\ x.hi = y.lo
             THEN SubSeq(a, 1, Len(a) - 1) \o <<[x EXCEPT !.hi = y.hi]>> \o Tail(b)
             ELSE a \o b

\* b[from:to], for 0 <= from: the bytes of b at positions from <= p < to.
RECURSIVE Slice(_, _, _)
Slice(b, from, to) ==
    IF b = <<>> \/ to <= from THEN <<>>
    ELSE LET r == Head(b)
             n == RunLen(r)
         IN  IF from >= n
             THEN Slice(Tail(b), from - n, to - n)
             ELSE Concat(Run(r.f, r.lo + from, Min(r.lo + to, r.hi)),
                         Slice(Tail(b), 0, to - n))

\* The reference content of remote file f.
Source(f) == Run(f, 0, SourceLen(f))

\* The reference bytes in [offset, offset + size), cut at the end of the source.
SourceRange(f, offset, size) == Run(f, offset, Min(offset + size, SourceLen(f)))

\* The sizes and offsets the reads are called with: at and around the chunk
\* boundaries and the ends of the sources.
Offsets == {0, ChunkSize - 5, ChunkSize, 2 * ChunkSize}

Sizes == {0, 5, 10, ChunkSize}

\* The reads of the specification that also probes the file nodes' sizes.
NodeOffsets == {0, ChunkSize}

NodeSizes == {ChunkSize}

\* Handle.__init__: an empty temporary file, nothing pulled, the response's
\* chunk iterator at the start of the body (response_data is kept as the
\* number of bytes the iterator has yielded).  response is the state of the
\* streamed GET response the iterator reads from: "open" while the download
\* is in flight, "consumed" once the iterator has run off the end of the
\* body, which hands the connection back.
NewHandle(f) ==
    [node          |-> f,
     temp_file     |-> <<>>,
     closed        |-> FALSE,
     read_bytes    |-> 0,
     response      |-> "open",
     response_data |-> 0,
     read_all      |-> FALSE,
     peak          |-> 0]

\* peak is no field of the code: it keeps the highest value read_bytes has had.
Seen(h) == [h EXCEPT !.peak = IF h.read_bytes > @ THEN h.read_bytes ELSE @]

\* response_data.__next__() when it yields: the next chunk of the body, of
\* ChunkSize bytes, or what is left of the body when that is less.
NextChunk(h) ==
    Slice(Source(h.node), h.response_data, h.response_data + ChunkSize)

\* response_data.__next__() raises StopIteration: the body is consumed.
StopIteration(h) == h.response_data >= SourceLen(h.node)

\* A read() call that forgets the handle was exhausted and asks again.
Running_Rearmed(h) ==
    [h |-> [h EXCEPT !.read_all = FALSE], nexts |-> 0, pulled |-> 0, raised |-> FALSE]

\* The running state of one read() call: the handle, the number of
\* __next__() calls made, the chunks they yielded, and whether an exception
\* other than StopIteration left the call.
Running(h) == [h |-> h, nexts |-> 0, pulled |-> 0, raised |-> FALSE]

\* A loop body that counts every chunk as a full one.
PullChunk_Miscount(w) ==
    LET h     == w.h
        chunk == NextChunk(h)
        n     == BytesLen(chunk)
    IN  IF h.closed
        THEN [w EXCEPT !.h.read_bytes = @ + ChunkSize,
                       !.h.response_data = @ + n,
                       !.nexts = @ + 1, !.pulled = @ + 1, !.raised = TRUE]
        ELSE [w EXCEPT !.h.read_bytes = @ + ChunkSize,
                       !.h.response_data = @ + n,
                       !.h.temp_file = Concat(@, chunk),
                       !.nexts = @ + 1, !.pulled = @ + 1]

\* One pass of the loop body of _read_until, on a chunk.  On a released
\* handle read_bytes is advanced and temp_file.seek() then raises ValueError
\* (I/O operation on closed file), which leaves the call.
PullChunk(w) ==
    LET h     == w.h
        chunk == NextChunk(h)
        n     == BytesLen(chunk)
    IN  IF h.closed
        THEN [w EXCEPT !.h.read_bytes = @ + n,
                       !.h.response_data = @ + n,
                       !.nexts = @ + 1, !.pulled = @ + 1, !.raised = TRUE]
        ELSE [w EXCEPT !.h.read_bytes = @ + n,
                       !.h.response_data = @ + n,
                       !.h.temp_file = Concat(@, chunk),
                       !.nexts = @ + 1, !.pulled = @ + 1]

\* A loop that gives up one chunk short of the position asked for.
MustPull_StopsShort(h, position) ==
    h.read_bytes + ChunkSize <= position /\ ~h.read_all

\* The loop condition of _read_until.
MustPull(h, position) == h.read_bytes <= position /\ ~h.read_all

RECURSIVE _read_until(_, _)
_read_until(w, position) ==
    IF w.raised \/ ~MustPull(w.h, position) THEN w
    ELSE IF StopIteration(w.h)
         THEN _read_until([w EXCEPT !.h.read_all = TRUE,
                                    !.h.response = "consumed",
                                    !.nexts = @ + 1], position)
         ELSE _read_until(PullChunk(w), position)

\* The condition under which read() calls _read_until.
NeedsMore(h, size, offset) == size + offset >= h.read_bytes

\* A read that forgets the seek and reads from the start of the file.
SeekRead_NoSeek(h, size, offset) == Slice(h.temp_file, 0, size)

\* temp_file.seek(offset); temp_file.read(size)
SeekRead(h, size, offset) == Slice(h.temp_file, offset, offset + size)

\* A read that always fetches one chunk ahead of what it was asked for.
read_Ahead(h, size, offset) ==
    LET w == _read_until(Running(h), size + offset + ChunkSize)
    IN  IF w.raised \/ w.h.closed
        THEN [w |-> [w EXCEPT !.raised = TRUE], result |-> <<>>]
        ELSE [w |-> w, result |-> SeekRead(w.h, size, offset)]

\* Handle.read(size, offset): the state of the call when it returns or
\* raises.  seek() on the temporary file of a released handle raises.
read(h, size, offset) ==
    LET w == IF NeedsMore(h, size, offset)
             THEN _read_until(Running(h), size + offset)
             ELSE Running(h)
    IN  IF w.raised \/ w.h.closed
        THEN [w |-> [w EXCEPT !.raised = TRUE], result |-> <<>>]
        ELSE [w |-> w, result |-> SeekRead(w.h, size, offset)]

\* What an operation leaves in `last`: the operation, the handle (its number
\* in `handles`) and file node it was called on, its arguments, the cursor
\* and the highest cursor the handle had when it was called, the __next__()
\* calls it made, the chunks they yielded, whether it raised, and its result.
Did(op, i, f, size, offset, h, w, result) ==
    [op |-> op, h |-> i, node |-> f, size |-> size, offset |-> offset,
     before |-> h.read_bytes, peak |-> h.peak,
     nexts |-> w.nexts, pulled |-> w.pulled, raised |-> w.raised,
     result |-> result]

InitFile ==
    /\ fsize = [f \in Files |-> None]
    /\ handles = <<>>
    /\ get_requests = [f \in Files |-> 0]
    /\ head_requests = [f \in Files |-> 0]
    /\ last = Did("init", 0, 0, 0, 0, NewHandle(0), Running(NewHandle(0)), <<>>)

\* IliasHttpFile.open(mode): one streaming GET, one new Handle over it.
Open(f) ==
    /\ Len(handles) < MaxHandles
    /\ get_requests' = [get_requests EXCEPT ![f] = @ + 1]
    /\ handles' = Append(handles, NewHandle(f))
    /\ last' = Did("open", Len(handles) + 1, f, 0, 0,
                   NewHandle(f), Running(NewHandle(f)), <<>>)
    /\ UNCHANGED <<fsize, head_requests>>
    /\ UNCHANGED dirVars

\* Handle.read(size, offset) on handle number i.
Read(i, size, offset) ==
    LET h == handles[i]
        r == read(h, size, offset)
    IN  /\ i \in DOMAIN handles
        /\ handles' = [handles EXCEPT ![i] = Seen(r.w.h)]
        /\ last' = Did("read", i, h.node, size, offset, h, r.w, r.result)
        /\ UNCHANGED <<fsize, get_requests, head_requests>>
        /\ UNCHANGED dirVars

\* Handle.release(): the temporary file is closed, which deletes it.  The
\* response and its iterator are not touched.
release(h) == [h EXCEPT !.closed = TRUE, !.temp_file = <<>>]

\* A release that closes one temporary file shared by the handles of a node.
Release_Shared(i) ==
    LET h == handles[i]
    IN  /\ i \in DOMAIN handles
        /\ handles' = [j \in DOMAIN handles |->
                          IF handles[j].node = h.node
                          THEN release(handles[j]) ELSE handles[j]]
        /\ last' = Did("release", i, h.node, 0, 0, h, Running(h), <<>>)
        /\ UNCHANGED <<fsize, get_requests, head_requests>>
        /\ UNCHANGED dirVars

\* Handle.release() on handle number i.
Release(i) ==
    LET h == handles[i]
    IN  /\ i \in DOMAIN handles
        /\ handles' = [handles EXCEPT ![i] = release(h)]
        /\ last' = Did("release", i, h.node, 0, 0, h, Running(h), <<>>)
        /\ UNCHANGED <<fsize, get_requests, head_requests>>
        /\ UNCHANGED dirVars

\* IliasHttpFile.getattr(): the first call probes the size with a HEAD
\* request and keeps the Content-Length it carries, or 0 when it carries
\* none; the call returns the size as st_size.
getattr(f) ==
    IF fsize[f] = None
    THEN [size |-> IF HasContentLength(f) THEN SourceLen(f) ELSE 0, heads |-> 1]
    ELSE [size |-> fsize[f], heads |-> 0]

FileGetattr(f) ==
    LET r == getattr(f)
    IN  /\ fsize' = [fsize EXCEPT ![f] = r.size]
        /\ head_requests' = [head_requests EXCEPT ![f] = @ + r.heads]
        /\ last' = Did("getattr", 0, f, 0, 0,
                       NewHandle(f), Running(NewHandle(f)), r.size)
        /\ UNCHANGED <<handles, get_requests>>
        /\ UNCHANGED dirVars

NextFile ==
    \/ \E f \in Files : Open(f)
    \/ \E i \in 1..MaxHandles, size \in Sizes, offset \in Offsets :
          Read(i, size, offset)

NextNode ==
    \/ \E f \in Files : Open(f)
    \/ \E f \in Files : FileGetattr(f)
    \/ \E i \in 1..MaxHandles, size \in NodeSizes, offset \in NodeOffsets :
          Read(i, size, offset)
    \/ \E i \in 1..MaxHandles : Release(i)

(***************************************************************************)
(*                            DIRECTORY SIDE                               *)
(***************************************************************************)

\* The most enumeration calls the crawler answers in a run, main()'s included.
MaxCrawls == 3

\* The coroutines the filesystem binding has in flight at a time: two, which
\* is what a concurrent first access takes.
Tasks == {"A", "B"}

\* An IliasCrawlerEntry; name stands for entry.path.name, url for entry.url().
Entry(path, name, entry_type) ==
    [path |-> path, name |-> name, entry_type |-> entry_type,
     url |-> "https://ilias/" \o path]

\* main(): the entry of the root node.
RootEntry == Entry(".", "", "REGULAR_FOLDER")

(***************************************************************************)
(* The remote portal: what the crawler returns for each folder when the    *)
(* call succeeds.  "docs" holds a forum and a file whose display names     *)
(* collide, "ex" is an empty folder.                                       *)
(***************************************************************************)
Listing(path) ==
    CASE path = "." ->
           <<Entry("docs", "docs", "REGULAR_FOLDER"),
             Entry("ex", "ex", "EXERCISE_FOLDER"),
             Entry("vid", "vid", "VIDEO_FOLDER")>>
      [] path = "docs" ->
           <<Entry("docs/X", "X", "FORUM"),
             Entry("docs/Forum - X", "Forum - X", "REGULAR_FILE"),
             Entry("docs/L", "L", "EXTERNAL_LINK")>>
      [] path = "vid" ->
           <<Entry("vid/v", "v", "VIDEO_FILE")>>
      [] OTHER -> <<>>

\* The folders of the portal, each the entry of at most one directory node.
FolderEntries ==
    {RootEntry} \cup {Listing(".")[i] : i \in DOMAIN Listing(".")}

DirPaths == {e.path : e \in FolderEntries}

EntryOf(d) == CHOOSE e \in FolderEntries : e.path = d

\* The enumeration operation realize_folder() selects for a node's entry.
CrawlMethod(entry) ==
    CASE entry.entry_type = "VIDEO_FOLDER"    -> "_crawl_video_directory"
      [] entry.entry_type = "EXERCISE_FOLDER" -> "_crawl_exercises"
      [] OTHER                                -> "_crawl_folder"

\* A realize_folder() that files every entry under its bare name.
DisplayName_Plain(entry) == entry.name

\* The key realize_folder() files an entry under.
DisplayName(entry) ==
    CASE entry.entry_type = "FORUM"         -> "Forum - " \o entry.name
      [] entry.entry_type = "EXTERNAL_LINK" -> "Link - " \o entry.name
      [] OTHER                              -> entry.name

\* A node object: an OwnedFile holds data, an IliasHttpFile the url of its
\* download info, an IliasHttpDirectory the path of its entry and an empty
\* child table of its own (contents[entry], untouched by the construction).
Node(kind, data, info, entry) ==
    [kind |-> kind, data |-> data, info |-> info, entry |-> entry]

\* A factory without the branch for video files: they fall through to the
\* directory case.
_entry_to_node_NoVideo(entry) ==
    CASE entry.entry_type = "FORUM"         -> Node("OwnedFile", entry.url, "", "")
      [] entry.entry_type = "EXTERNAL_LINK" -> Node("OwnedFile", entry.url, "", "")
      [] entry.entry_type = "REGULAR_FILE"  -> Node("IliasHttpFile", "", entry.url, "")
      [] OTHER -> Node("IliasHttpDirectory", "", "", entry.path)

\* _entry_to_node(entry, crawler, session) when no conversion raises.
_entry_to_node(entry) ==
    CASE entry.entry_type = "FORUM"         -> Node("OwnedFile", entry.url, "", "")
      [] entry.entry_type = "EXTERNAL_LINK" -> Node("OwnedFile", entry.url, "", "")
      [] entry.entry_type = "REGULAR_FILE"  -> Node("IliasHttpFile", "", entry.url, "")
      [] entry.entry_type = "VIDEO_FILE"    -> Node("IliasHttpFile", "", entry.url, "")
      [] OTHER -> Node("IliasHttpDirectory", "", "", entry.path)

\* The conversions that call into the entry (entry.url(),
\* entry.to_download_info()) and so can raise.
CanRaise(entry) ==
    entry.entry_type \in {"FORUM", "EXTERNAL_LINK", "REGULAR_FILE", "VIDEO_FILE"}

\* The positions of a listing at which the conversion can raise; 0 is none.
FailPoints(entries) ==
    {0} \cup {i \in DOMAIN entries : CanRaise(entries[i])}

\* An insertion that keeps the child a name already has.
Put_KeepFirst(table, name, node) ==
    [n \in DOMAIN table \cup {name} |-> IF n \in DOMAIN table THEN table[n] ELSE node]

\* self.contents[name] = node
Put(table, name, node) ==
    [n \in DOMAIN table \cup {name} |-> IF n = name THEN node ELSE table[n]]

NoChildren == [n \in {} |-> 0]

\* The loop of realize_folder() from entry i on; the conversion of entry
\* fail_at raises and leaves the loop with what was inserted before it.
RECURSIVE InsertEntries(_, _, _, _)
InsertEntries(table, entries, i, fail_at) ==
    IF i > Len(entries) THEN [contents |-> table, raised |-> FALSE]
    ELSE IF i = fail_at THEN [contents |-> table, raised |-> TRUE]
    ELSE InsertEntries(Put(table, DisplayName(entries[i]), _entry_to_node(entries[i])),
                       entries, i + 1, fail_at)

\* A guard that never takes a table for loaded.
IsRealized_Forgetful(table) == FALSE

\* len(self.contents) > 0
IsRealized(table) == DOMAIN table # {}

\* A realize_folder() that files a placeholder child when the crawler fails.
realize_folder_KeepsFailure(table, entry, crawl_ok, fail_at) ==
    IF IsRealized(table)
    THEN [contents |-> table, enumerated |-> FALSE, error |-> "none"]
    ELSE IF ~crawl_ok
    THEN [contents |-> Put(table, "error", Node("OwnedFile", "failed", "", "")),
          enumerated |-> TRUE, error |-> "enumeration"]
    ELSE LET r == InsertEntries(table, Listing(entry.path), 1, fail_at)
         IN  [contents |-> r.contents, enumerated |-> TRUE,
              error |-> IF r.raised THEN "conversion" ELSE "none"]

\* realize_folder() on the node of entry, with child table `table`, when the
\* crawler call succeeds or not (crawl_ok) and the conversion of entry
\* number fail_at raises: the table it leaves, whether it called the
\* crawler, and the error that left it ("none" when it returned).
realize_folder(table, entry, crawl_ok, fail_at) ==
    IF IsRealized(table)
    THEN [contents |-> table, enumerated |-> FALSE, error |-> "none"]
    ELSE IF ~crawl_ok
    THEN [contents |-> table, enumerated |-> TRUE, error |-> "enumeration"]
    ELSE LET r == InsertEntries(table, Listing(entry.path), 1, fail_at)
         IN  [contents |-> r.contents, enumerated |-> TRUE,
              error |-> IF r.raised THEN "conversion" ELSE "none"]

\* The crawler calls made so far.
RECURSIVE SumOver(_, _)
SumOver(f, S) ==
    IF S = {} THEN 0
    ELSE LET x == CHOOSE y \in S : TRUE IN f[x] + SumOver(f, S \ {x})

Crawls == SumOver(enum_calls, DirPaths)

\* The directory nodes that exist: the root, and those in a child table.
Exists(d) ==
    \/ d = RootEntry.path
    \/ \E p \in DirPaths : \E n \in DOMAIN contents[p] :
          contents[p][n].kind = "IliasHttpDirectory" /\ contents[p][n].entry = d

Idle == [pc |-> "idle", op |-> "none", dir |-> ".", name |-> "",
         raced |-> FALSE, enumerated |-> FALSE, error |-> "none",
         seen |-> NoChildren]

InitDir ==
    /\ mount = "starting"
    /\ contents = [d \in DirPaths |-> NoChildren]
    /\ enum_calls = [d \in DirPaths |-> 0]
    /\ realized_ok = {}
    /\ enum_failed = {}
    /\ tasks = [t \in Tasks |-> Idle]

\* A realize_folder() whose failure throws every cached child table away.
Realize_Poisons(d, r) ==
    /\ enum_calls' = [enum_calls EXCEPT ![d] = IF r.enumerated THEN @ + 1 ELSE @]
    /\ contents' = IF r.error = "none"
                   THEN [contents EXCEPT ![d] = r.contents]
                   ELSE [x \in DirPaths |-> NoChildren]
    /\ realized_ok' = IF r.error = "none" THEN realized_ok \cup {d} ELSE realized_ok
    /\ enum_failed' = IF r.error = "enumeration"
                      THEN enum_failed \cup {d} ELSE enum_failed \ {d}

\* The effect of one realize_folder() call on directory node d.
Realize(d, r) ==
    /\ enum_calls' = [enum_calls EXCEPT ![d] = IF r.enumerated THEN @ + 1 ELSE @]
    /\ contents' = [contents EXCEPT ![d] = r.contents]
    /\ realized_ok' = IF r.error = "none" THEN realized_ok \cup {d} ELSE realized_ok
    /\ enum_failed' = IF r.error = "enumeration"
                      THEN enum_failed \cup {d} ELSE enum_failed \ {d}

\* main(): root_node.realize_folder(), then the mount; an exception ends the
\* program before anything is mounted.
MainRealize(crawl_ok, fail_at) ==
    LET d == RootEntry.path
        r == realize_folder(contents[d], RootEntry, crawl_ok, fail_at)
    IN  /\ mount = "starting"
        /\ fail_at \in FailPoints(Listing(d))
        /\ Realize(d, r)
        /\ mount' = IF r.error = "none" THEN "mounted" ELSE "exited"
        /\ UNCHANGED tasks
        /\ UNCHANGED fileVars

\* Every position at which some listing's conversion can raise.
FailChoices == UNION {FailPoints(Listing(d)) : d \in DirPaths}

\* The names the lookups ask for.
LookupNames == {"Forum - X", "ex"}

\* The operations of a directory node that load it.
Accesses == {"lookup", "opendir"}

\* The binding dispatches lookup(name), opendir() or getattr() on directory
\* node d as coroutine t; the coroutine has not run yet.  Two accesses
\* dispatched on the same node while it is unrealized and neither has run
\* make a concurrent first access (raced).
Request(t, op, d, name) ==
    LET racing == {u \in Tasks \ {t} :
                     /\ op \in Accesses
                     /\ tasks[u].op \in Accesses
                     /\ tasks[u].pc = "called"
                     /\ tasks[u].dir = d
                     /\ ~IsRealized(contents[d])}
    IN  /\ mount = "mounted"
        /\ tasks[t].pc \in {"idle", "returned", "raised"}
        /\ Exists(d)
        /\ tasks' = [u \in Tasks |->
                       IF u = t
                       THEN [Idle EXCEPT !.pc = "called", !.op = op, !.dir = d,
                                         !.name = name, !.raced = racing # {}]
                       ELSE IF u \in racing
                       THEN [tasks[u] EXCEPT !.raced = TRUE]
                       ELSE tasks[u]]
        /\ UNCHANGED <<mount, contents, enum_calls, realized_ok, enum_failed>>
        /\ UNCHANGED fileVars

\* lookup() and opendir() up to their await: self.realize_folder(), which
\* runs without yielding to another coroutine.  An exception ends the
\* coroutine and is what its caller gets.
Start(t, crawl_ok, fail_at) ==
    LET d == tasks[t].dir
        r == realize_folder(contents[d], EntryOf(d), crawl_ok, fail_at)
    IN  /\ tasks[t].pc = "called"
        /\ tasks[t].op \in Accesses
        /\ fail_at \in FailPoints(Listing(d))
        /\ IsRealized(contents[d]) \/ Crawls < MaxCrawls
        /\ Realize(d, r)
        /\ tasks' = [tasks EXCEPT ![t].enumerated = r.enumerated,
                                  ![t].error = r.error,
                                  ![t].pc = IF r.error = "none"
                                            THEN "awaiting" ELSE "raised"]
        /\ UNCHANGED mount
        /\ UNCHANGED fileVars

\* await super().lookup(name): the coroutine reads the child table.
LookupReturn(t) ==
    /\ tasks[t].pc = "awaiting"
    /\ tasks[t].op = "lookup"
    /\ tasks' = [tasks EXCEPT ![t].pc = "returned",
                              ![t].seen = contents[tasks[t].dir]]
    /\ UNCHANGED <<mount, contents, enum_calls, realized_ok, enum_failed>>
    /\ UNCHANGED fileVars

\* await super().opendir(): the coroutine reads the child table.
OpendirReturn(t) ==
    /\ tasks[t].pc = "awaiting"
    /\ tasks[t].op = "opendir"
    /\ tasks' = [tasks EXCEPT ![t].pc = "returned",
                              ![t].seen = contents[tasks[t].dir]]
    /\ UNCHANGED <<mount, contents, enum_calls, realized_ok, enum_failed>>
    /\ UNCHANGED fileVars

\* What lookup(name) hands back, from the table the coroutine read.
Child(task) ==
    IF task.name \in DOMAIN task.seen THEN task.seen[task.name] ELSE "ENOENT"

NextDir ==
    \/ \E crawl_ok \in BOOLEAN, fail_at \in FailChoices :
          MainRealize(crawl_ok, fail_at)
    \/ \E t \in Tasks, d \in DirPaths, name \in LookupNames :
          Request(t, "lookup", d, name)
    \/ \E t \in Tasks, d \in DirPaths : Request(t, "opendir", d, "")
    \/ \E t \in Tasks, crawl_ok \in BOOLEAN, fail_at \in FailChoices :
          Start(t, crawl_ok, fail_at)
    \/ \E t \in Tasks : LookupReturn(t)
    \/ \E t \in Tasks : OpendirReturn(t)

(***************************************************************************)
(*                      ONE TREE, WITH FAILING CALLS                       *)
(***************************************************************************)

\* The most remote calls of the file nodes (GET, HEAD) that fail in a run.
MaxFailures == 1

\* The remote file behind the url of a file node of the tree.
UrlFile(url) ==
    CASE url = "https://ilias/docs/Forum - X" -> 2
      [] url = "https://ilias/vid/v"          -> 3
      [] OTHER                                -> 1

\* The file nodes that exist: those in a child table.
InTree(f) ==
    \E d \in DirPaths : \E n \in DOMAIN contents[d] :
        contents[d][n].kind = "IliasHttpFile" /\ UrlFile(contents[d][n].info) = f

\* The GET and HEAD calls that raised so far: the GETs that gave no handle,
\* the HEADs that gave no size.
Failures ==
    (SumOver(get_requests, Files) - Len(handles))
      + SumOver([f \in Files |->
                   IF fsize[f] = None THEN head_requests[f]
                   ELSE head_requests[f] - 1], Files)

\* What a file operation that raised before it touched a handle leaves in
\* `last`.
Raised(op, f) ==
    Did(op, 0, f, 0, 0, NewHandle(f),
        [Running(NewHandle(f)) EXCEPT !.raised = TRUE], <<>>)

\* IliasHttpFile.open(mode) when session.get() raises: no Handle is made.
OpenFails(f) ==
    /\ Failures < MaxFailures
    /\ get_requests' = [get_requests EXCEPT ![f] = @ + 1]
    /\ last' = Raised("open", f)
    /\ UNCHANGED <<fsize, handles, head_requests>>
    /\ UNCHANGED dirVars

\* IliasHttpFile.getattr() when session.head() raises: self.size stays None.
GetattrFails(f) ==
    /\ Failures < MaxFailures
    /\ fsize[f] = None
    /\ head_requests' = [head_requests EXCEPT ![f] = @ + 1]
    /\ last' = Raised("getattr", f)
    /\ UNCHANGED <<fsize, handles, get_requests>>
    /\ UNCHANGED dirVars

\* A getattr that loads the folder first, like lookup() and opendir() do.
DirGetattr_Realizes(t) ==
    LET d == tasks[t].dir
        r == realize_folder(contents[d], EntryOf(d), TRUE, 0)
    IN  /\ tasks[t].pc = "called"
        /\ tasks[t].op = "getattr"
        /\ IsRealized(contents[d]) \/ Crawls < MaxCrawls
        /\ Realize(d, r)
        /\ tasks' = [tasks EXCEPT ![t].pc = "returned"]
        /\ UNCHANGED mount
        /\ UNCHANGED fileVars

\* IliasHttpDirectory.getattr() run as coroutine t: it has no await and
\* returns a Stat made of the node's mode and the process's uid and gid.
DirGetattr(t) ==
    /\ tasks[t].pc = "called"
    /\ tasks[t].op = "getattr"
    /\ tasks' = [tasks EXCEPT ![t].pc = "returned"]
    /\ UNCHANGED <<mount, contents, enum_calls, realized_ok, enum_failed>>
    /\ UNCHANGED fileVars

\* The coroutine the tree's operations run as, and the name its lookups
\* ask for.
TreeTask == "A"

TreeNames == {"Forum - X"}

NextTree ==
    \/ \E crawl_ok \in BOOLEAN, fail_at \in FailChoices :
          MainRealize(crawl_ok, fail_at)
    \/ \E d \in DirPaths, name \in TreeNames :
          Request(TreeTask, "lookup", d, name)
    \/ \E crawl_ok \in BOOLEAN, fail_at \in FailChoices :
          Start(TreeTask, crawl_ok, fail_at)
    \/ LookupReturn(TreeTask)
    \/ \E f \in Files : InTree(f) /\ Open(f)
    \/ \E f \in Files : InTree(f) /\ OpenFails(f)
    \/ \E f \in Files : InTree(f) /\ FileGetattr(f)
    \/ \E f \in Files : InTree(f) /\ GetattrFails(f)

NextAttr ==
    \/ \E crawl_ok \in BOOLEAN, fail_at \in FailChoices :
          MainRealize(crawl_ok, fail_at)
    \/ \E d \in DirPaths, name \in LookupNames :
          Request(TreeTask, "lookup", d, name)
    \/ \E d \in DirPaths : Request(TreeTask, "opendir", d, "")
    \/ \E d \in DirPaths : Request(TreeTask, "getattr", d, "")
    \/ \E crawl_ok \in BOOLEAN, fail_at \in FailChoices :
          Start(TreeTask, crawl_ok, fail_at)
    \/ LookupReturn(TreeTask)
    \/ OpendirReturn(TreeTask)
    \/ DirGetattr(TreeTask)

Init == InitFile /\ InitDir

\* The read handles: opens, and reads at every offset and size.
SpecFile == Init /\ [][NextFile]_vars

\* The file nodes and their handles: opens, size probes, reads, releases.
SpecNode == Init /\ [][NextNode]_vars

\* The directory tree: main(), then lookups and listings from two coroutines.
SpecDir == Init /\ [][NextDir]_vars

\* One tree: main(), lookups in the directories, and opens and size probes
\* of the file nodes it holds; the remote calls can fail.
SpecTree == Init /\ [][NextTree]_vars

\* The directory nodes under lookup, opendir and getattr.
SpecAttr == Init /\ [][NextAttr]_vars

(***************************************************************************)
(*                         PROPERTIES, FILE SIDE                           *)
(***************************************************************************)

\* The latest operation was a read on an open handle.
LastRead == last.op = "read"

\* C1: whatever was read before on the handle, a read(offset, size) with
\* 0 <= offset <= offset + size <= N returns exactly the source bytes in
\* [offset, offset + size).
C1_RandomAccess ==
    (LastRead /\ last.offset + last.size <= SourceLen(last.node))
        => /\ ~last.raised
           /\ last.result = SourceRange(last.node, last.offset, last.size)
           /\ BytesLen(last.result) = last.size

\* A read across a chunk boundary served from the store, after earlier reads
\* pulled both chunks.
C1_Witness ==
    /\ LastRead
    /\ last.node = 3
    /\ last.offset = ChunkSize - 5
    /\ last.size = 10
    /\ last.pulled = 0
    /\ last.result = Run(3, ChunkSize - 5, ChunkSize + 5)

\* C2 (as claimed): a read with offset + size <= cursor, the boundary
\* offset + size = cursor included, pulls no chunk and leaves the cursor
\* where it was.
C2_NoPullWithinPulled ==
    (LastRead /\ last.offset + last.size <= last.before)
        => /\ last.pulled = 0
           /\ handles[last.h].read_bytes = last.before

\* C3 (as claimed): a read of size 0 returns nothing and pulls no chunk, at
\* every offset and in every state of the handle.
C3_ZeroSizeNoPull ==
    (LastRead /\ last.size = 0)
        => /\ last.result = <<>>
           /\ last.pulled = 0

\* C8: on an N-byte source a read at offset >= N returns nothing, and a read
\* with offset < N < offset + size returns exactly the N - offset bytes from
\* offset to the end; neither is an error.
C8_EndOfFile ==
    LET N == SourceLen(last.node)
    IN  LastRead =>
          /\ ~last.raised
          /\ last.offset >= N => last.result = <<>>
          /\ (last.offset < N /\ N < last.offset + last.size)
                => /\ last.result = Run(last.node, last.offset, N)
                   /\ BytesLen(last.result) = N - last.offset

\* read(N - 5, 10) on the source whose last chunk is short, after the handle
\* has been read before: five bytes.
C8_Witness ==
    /\ LastRead
    /\ last.node = 2
    /\ last.before > 0
    /\ last.offset = SourceLen(2) - 5
    /\ last.size = 10
    /\ BytesLen(last.result) = 5

\* C9: once the cursor has been strictly past a position P, a read with
\* offset + size <= P asks the source for nothing and leaves the cursor
\* where it was.
C9_NoRedundantPulls ==
    (LastRead /\ last.offset + last.size < last.peak)
        => /\ last.nexts = 0
           /\ last.pulled = 0
           /\ handles[last.h].read_bytes = last.before

\* A read wholly below the cursor, with a chunk of the source still unpulled.
C9_Witness ==
    /\ LastRead
    /\ last.node = 3
    /\ last.offset = 0
    /\ last.size = 10
    /\ last.peak = ChunkSize
    /\ last.result = Run(3, 0, 10)
    /\ ~handles[last.h].read_all

\* What C10 asks of one step.
C10_Step ==
    LET i == last'.h
        f == last'.node
    IN  /\ last'.op \in {"read", "release"} =>
              /\ DOMAIN handles' = DOMAIN handles
              /\ \A j \in DOMAIN handles \ {i} : handles'[j] = handles[j]
              /\ fsize' = fsize
              /\ get_requests' = get_requests
              /\ head_requests' = head_requests
        /\ (last'.op = "open" /\ ~last'.raised) =>
              /\ get_requests' = [get_requests EXCEPT ![f] = @ + 1]
              /\ head_requests' = head_requests
              /\ fsize' = fsize
              /\ Len(handles') = Len(handles) + 1
              /\ i = Len(handles')
              /\ \A j \in DOMAIN handles : handles'[j] = handles[j]
              /\ handles'[i].node = f
              /\ handles'[i].temp_file = <<>>
              /\ handles'[i].read_bytes = 0
              /\ ~handles'[i].read_all
              /\ ~handles'[i].closed

\* C10: every open() issues exactly one streaming GET and returns a new
\* handle with a buffer, a cursor and an exhausted flag of its own; a read
\* or a release on one handle changes no other handle and no file node.
C10_HandleIndependence == [][C10_Step]_vars

\* Two handles on one file node whose size is known: the first was read and
\* released, the second then reads the first chunk itself.
C10_Witness ==
    /\ Len(handles) = 2
    /\ handles[1].node = 3
    /\ handles[2].node = 3
    /\ handles[1].closed
    /\ handles[1].read_bytes > 0
    /\ fsize[3] = SourceLen(3)
    /\ get_requests[3] = 2
    /\ LastRead
    /\ last.h = 2
    /\ last.before = 0
    /\ last.result = Run(3, 0, ChunkSize)

(***************************************************************************)
(*                       PROPERTIES, DIRECTORY SIDE                        *)
(***************************************************************************)

\* The keys a listing fills: one per distinct display name.
DisplayNames(d) == {DisplayName(Listing(d)[i]) : i \in DOMAIN Listing(d)}

\* The child table of d after an undisturbed realization.
FullTable(d) == InsertEntries(NoChildren, Listing(d), 1, 0).contents

\* A coroutine that has come out of realize_folder() without an exception.
Through(t) == tasks[t].pc \in {"awaiting", "returned"}

\* What C4 asks of one step.
C4_Step ==
    \A d \in realized_ok :
        /\ enum_calls'[d] = enum_calls[d]
        /\ contents'[d] = contents[d]

\* C4 (as claimed): once a realize_folder() has returned on a node, whatever
\* the listing held, no step enumerates that node again or changes its
\* child table.
C4_RealizedOnce == [][C4_Step]_vars

\* C5 (as claimed): of two accesses dispatched together on an unrealized
\* node, exactly one enumerates, and both find the same fully populated
\* child table.
C5_ConcurrentFirstAccess ==
    \A t \in Tasks : \A u \in Tasks \ {t} :
        ( /\ tasks[t].raced /\ tasks[u].raced
          /\ tasks[t].dir = tasks[u].dir
          /\ Through(t) /\ Through(u) )
        => /\ tasks[t].enumerated # tasks[u].enumerated
           /\ contents[tasks[t].dir] = FullTable(tasks[t].dir)
           /\ (tasks[t].pc = "returned" /\ tasks[u].pc = "returned")
                 => tasks[t].seen = tasks[u].seen

\* A child table with no key, or with a key for every entry of the listing.
EmptyOrFull(table, d) == table = NoChildren \/ DOMAIN table = DisplayNames(d)

\* C6 (as claimed): the child table a lookup or a listing is about to read,
\* or has read, is empty or holds a child for every entry of the listing.
C6_EmptyOrFull ==
    \A t \in Tasks :
        /\ tasks[t].pc = "awaiting" => EmptyOrFull(contents[tasks[t].dir], tasks[t].dir)
        /\ tasks[t].pc = "returned" => EmptyOrFull(tasks[t].seen, tasks[t].dir)

\* What C7 asks of one step: the step in which a coroutine runs
\* realize_folder().
C7_Step ==
    \A t \in Tasks :
        (tasks[t].op \in Accesses /\ tasks[t].pc = "called" /\ tasks'[t].pc # "called") =>
            LET d == tasks[t].dir
            IN  /\ tasks'[t].error = "enumeration" =>
                      /\ tasks'[t].pc = "raised"
                      /\ enum_calls'[d] = enum_calls[d] + 1
                      /\ contents' = contents
                      /\ contents'[d] = NoChildren
                      /\ d \notin realized_ok' \ realized_ok
                /\ d \in enum_failed =>
                      /\ tasks'[t].enumerated
                      /\ enum_calls'[d] = enum_calls[d] + 1

\* C7: when the enumeration fails inside realize_folder(), the coroutine's
\* caller gets the exception, the crawler was called once, no child table
\* has changed and the node's is empty; and the next lookup or opendir on
\* the node calls the crawler again.
C7_EnumerationFailure == [][C7_Step]_vars

\* One coroutine got the enumeration failure on "docs"; the other, asking
\* after it, enumerated again and read the full table.
C7_Witness ==
    \E t \in Tasks : \E u \in Tasks \ {t} :
        /\ tasks[u].dir = "docs" /\ tasks[t].dir = "docs"
        /\ tasks[u].pc = "raised" /\ tasks[u].error = "enumeration"
        /\ tasks[t].pc = "returned" /\ tasks[t].enumerated
        /\ enum_calls["docs"] = 2
        /\ tasks[t].seen = FullTable("docs")

(***************************************************************************)
(*                     PROPERTIES, FILE SIDE (CONTINUED)                   *)
(***************************************************************************)

\* C11 (as claimed): release() on a handle whose download is still in
\* flight, with bytes of the body not yet delivered, closes the response: no
\* released handle is left with an open network stream.
C11_ReleaseClosesStream ==
    \A i \in DOMAIN handles :
        (handles[i].closed /\ handles[i].response_data < SourceLen(handles[i].node))
            => handles[i].response # "open"

\* What C12 asks of one step, of every handle that is exhausted.
C12_Step ==
    \A i \in DOMAIN handles :
        handles[i].read_all =>
            /\ handles'[i].read_all
            /\ handles'[i].read_bytes = handles[i].read_bytes
            /\ (last'.op = "read" /\ last'.h = i) => last'.nexts = 0

\* C12: once a handle's read_all is set it stays set, no read on the handle
\* asks the source for another chunk, and read_bytes never changes again.
C12_ExhaustionPermanent == [][C12_Step]_vars

\* A read past the end of the 133-byte source on a handle already
\* exhausted: it asks the source for nothing and returns the last 5 bytes.
C12_Witness ==
    /\ LastRead
    /\ last.node = 2
    /\ last.before = SourceLen(2)
    /\ last.offset = ChunkSize
    /\ last.size = 10
    /\ last.nexts = 0
    /\ handles[last.h].read_all
    /\ last.result = Run(2, ChunkSize, SourceLen(2))

\* C17 (as claimed): a read(offset, size) that needs more data pulls chunks
\* in source order and stops as soon as the cursor has reached offset + size
\* or the source is exhausted: the last chunk it pulled was pulled with the
\* cursor still below offset + size, it asked the source again after its
\* last chunk only if the cursor was still below offset + size, and it did
\* not stop short.
C17_PullStop ==
    LET h        == handles[last.h]
        position == last.offset + last.size
        last_len == IF h.read_bytes % ChunkSize = 0
                    THEN ChunkSize ELSE h.read_bytes % ChunkSize
    IN  (LastRead /\ position > last.before) =>
            /\ last.pulled > 0 => h.read_bytes - last_len < position
            /\ last.nexts > last.pulled => h.read_bytes < position
            /\ h.read_bytes >= position \/ h.read_all
            /\ h.temp_file = Run(h.node, 0, h.read_bytes)

\* C20 (as claimed): in every state of every handle, under reads and
\* releases, read_bytes is the number of bytes the temporary file holds,
\* the file's content is the first read_bytes bytes of the source, and
\* read_bytes has never decreased.
C20_BufferInvariantAlways ==
    \A i \in DOMAIN handles :
        LET h == handles[i]
        IN  /\ BytesLen(h.temp_file) = h.read_bytes
            /\ h.temp_file = Run(h.node, 0, h.read_bytes)
            /\ h.read_bytes = h.peak

\* C20 (amended): in every state of a handle that has not been released,
\* read_bytes is the number of bytes the temporary file holds and the file's
\* content is the first read_bytes bytes of the source; read_bytes never
\* decreases, released or not.
C20_BufferInvariant ==
    \A i \in DOMAIN handles :
        LET h == handles[i]
        IN  /\ ~h.closed =>
                  /\ BytesLen(h.temp_file) = h.read_bytes
                  /\ h.temp_file = Run(h.node, 0, h.read_bytes)
            /\ h.read_bytes = h.peak

\* One handle read to the end of the 133-byte source and released, its
\* temporary file gone; another, open, holding both chunks of the 256-byte
\* source.
C20_Witness ==
    /\ Len(handles) = 2
    /\ handles[1].node = 2
    /\ handles[1].closed
    /\ handles[1].read_bytes = SourceLen(2)
    /\ handles[1].temp_file = <<>>
    /\ handles[2].node = 3
    /\ ~handles[2].closed
    /\ handles[2].read_bytes = 2 * ChunkSize
    /\ handles[2].temp_file = Run(3, 0, 2 * ChunkSize)

(***************************************************************************)
(*                  PROPERTIES, DIRECTORY SIDE (CONTINUED)                 *)
(***************************************************************************)

\* A coroutine whose realize_folder() enumerated its node and returned.
Enumerated(t) == Through(t) /\ tasks[t].enumerated /\ tasks[t].error = "none"

\* C13: the child table's keys are, for every listing entry, "Forum - " +
\* name for a forum, "Link - " + name for an external link and the entry's
\* own name for every other kind: a table holds no other key, and after an
\* enumeration that returned it holds the key of every entry.
C13_NameMapping ==
    LET Key(e) == IF e.entry_type = "FORUM" THEN "Forum - " \o e.name
                  ELSE IF e.entry_type = "EXTERNAL_LINK" THEN "Link - " \o e.name
                  ELSE e.name
        Keys(d) == {Key(Listing(d)[i]) : i \in DOMAIN Listing(d)}
    IN  /\ \A d \in DirPaths : DOMAIN contents[d] \subseteq Keys(d)
        /\ mount = "mounted" => DOMAIN contents[RootEntry.path] = Keys(RootEntry.path)
        /\ \A t \in Tasks :
              Enumerated(t) => DOMAIN contents[tasks[t].dir] = Keys(tasks[t].dir)

\* "docs" enumerated by a lookup: the forum and the link are filed under
\* their prefixed names, and the root's folders under their own.
C13_Witness ==
    /\ \E t \in Tasks : Enumerated(t) /\ tasks[t].dir = "docs"
    /\ DOMAIN contents["docs"] = {"Forum - X", "Link - L"}
    /\ DOMAIN contents["."] = {"docs", "ex", "vid"}

\* What C14 asks of one step: every child a table holds after it is the
\* node of the claimed variant for an entry of the listing filed under its
\* name, and a directory node that the step created is unrealized.
C14_Step ==
    LET IsVariant(node, e) ==
            IF e.entry_type \in {"FORUM", "EXTERNAL_LINK"}
            THEN node.kind = "OwnedFile" /\ node.data = e.url
            ELSE IF e.entry_type \in {"REGULAR_FILE", "VIDEO_FILE"}
            THEN node.kind = "IliasHttpFile" /\ node.info = e.url
            ELSE node.kind = "IliasHttpDirectory" /\ node.entry = e.path
        IsNew(d, n) == n \notin DOMAIN contents[d]
    IN  \A d \in DirPaths : \A n \in DOMAIN contents'[d] :
            /\ \E i \in DOMAIN Listing(d) :
                  /\ DisplayName(Listing(d)[i]) = n
                  /\ IsVariant(contents'[d][n], Listing(d)[i])
            /\ (IsNew(d, n) /\ contents'[d][n].kind = "IliasHttpDirectory") =>
                  /\ contents'[contents'[d][n].entry] = NoChildren
                  /\ enum_calls'[contents'[d][n].entry] = 0

\* C14: _entry_to_node gives one node per entry, of the variant its kind
\* fixes: a static text file holding the entry's url for a forum and an
\* external link, a remote file node for a regular file and a video file,
\* and an unrealized directory node for every other kind.
C14_FactoryMapping == [][C14_Step]_vars

\* The root, "docs" and "vid" realized: folders of three kinds as directory
\* nodes ("ex" still unrealized), a link as a text file holding its url, a
\* regular file and a video file as remote file nodes.
C14_Witness ==
    /\ DOMAIN contents["."] = {"docs", "ex", "vid"}
    /\ contents["."]["ex"].kind = "IliasHttpDirectory"
    /\ contents["ex"] = NoChildren /\ enum_calls["ex"] = 0
    /\ "Link - L" \in DOMAIN contents["docs"]
    /\ contents["docs"]["Link - L"] = Node("OwnedFile", "https://ilias/docs/L", "", "")
    /\ contents["docs"]["Forum - X"].kind = "IliasHttpFile"
    /\ "v" \in DOMAIN contents["vid"]
    /\ contents["vid"]["v"].kind = "IliasHttpFile"

\* What C18 asks of one step, of every node whose child table has a child.
C18_Step ==
    /\ \A d \in DirPaths :
          DOMAIN contents[d] # {} =>
              /\ contents'[d] = contents[d]
              /\ enum_calls'[d] = enum_calls[d]
    /\ \A t \in Tasks :
          (tasks[t].op \in Accesses /\ tasks[t].pc = "called"
              /\ tasks'[t].pc # "called" /\ DOMAIN contents[tasks[t].dir] # {}) =>
              /\ ~tasks'[t].enumerated
              /\ tasks'[t].pc = "awaiting"

\* C18: realize_folder() on a node whose child table is non-empty calls no
\* enumeration and adds, removes or replaces no child; a child table that
\* has a child is the same after every step.
C18_NonEmptyNoOp == [][C18_Step]_vars

\* A second access of "docs" went through realize_folder() without an
\* enumeration and read the table the first one had built.
C18_Witness ==
    \E t \in Tasks :
        /\ tasks[t].dir = "docs"
        /\ tasks[t].pc = "returned"
        /\ ~tasks[t].enumerated
        /\ enum_calls["docs"] = 1
        /\ tasks[t].seen = FullTable("docs")
        /\ contents["docs"] = FullTable("docs")

\* C19: after an enumeration that returned, every display name of the
\* listing has exactly one child, the node built from the last entry of the
\* listing with that display name, and the table has as many children as
\* the listing has distinct display names.
C19_LastWins ==
    LET LastOf(L, n) == CHOOSE i \in DOMAIN L :
                            /\ DisplayName(L[i]) = n
                            /\ \A j \in DOMAIN L : DisplayName(L[j]) = n => j <= i
        Holds(d) ==
            LET L == Listing(d)
                names == {DisplayName(L[i]) : i \in DOMAIN L}
            IN  /\ DOMAIN contents[d] = names
                /\ \A n \in names : contents[d][n] = _entry_to_node(L[LastOf(L, n)])
                /\ Cardinality(DOMAIN contents[d]) = Cardinality(names)
    IN  /\ mount = "mounted" => Holds(RootEntry.path)
        /\ \A t \in Tasks : Enumerated(t) => Holds(tasks[t].dir)

\* "docs" enumerated: the forum X and the file "Forum - X" share the name
\* "Forum - X", which holds the file, the later of the two; three entries,
\* two children.
C19_Witness ==
    /\ \E t \in Tasks : Enumerated(t) /\ tasks[t].dir = "docs"
    /\ Len(Listing("docs")) = 3
    /\ Cardinality(DOMAIN contents["docs"]) = 2
    /\ contents["docs"]["Forum - X"] =
          Node("IliasHttpFile", "", "https://ilias/docs/Forum - X", "")

(***************************************************************************)
(*                        PROPERTIES OF THE TREE                           *)
(***************************************************************************)

\* What C15 asks of one step.
C15_Step ==
    LET FileFailed == /\ last'.raised
                      /\ \/ get_requests' # get_requests
                         \/ head_requests' # head_requests
    IN  /\ \A t \in Tasks :
              (tasks[t].op \in Accesses /\ tasks[t].pc = "called"
                  /\ tasks'[t].pc = "raised") =>
                  /\ \A d \in DirPaths \ {tasks[t].dir} :
                        /\ contents'[d] = contents[d]
                        /\ enum_calls'[d] = enum_calls[d]
                  /\ fsize' = fsize
                  /\ handles' = handles
        /\ FileFailed =>
              /\ contents' = contents
              /\ enum_calls' = enum_calls
              /\ handles' = handles
              /\ fsize' = fsize
        /\ \A t \in Tasks :
              (tasks[t].op \in Accesses /\ tasks[t].pc = "called"
                  /\ tasks'[t].pc # "called" /\ IsRealized(contents[tasks[t].dir])) =>
                  /\ tasks'[t].pc = "awaiting"
                  /\ contents' = contents
                  /\ enum_calls' = enum_calls
        /\ \A t \in Tasks :
              (tasks[t].pc = "awaiting" /\ tasks'[t].pc = "returned") =>
                  tasks'[t].seen = contents[tasks[t].dir]

\* C15: a realize_folder() that raises changes no other directory node's
\* child table and no file node or handle; an open() or getattr() of a file
\* node that raises changes no child table, no handle and no node's size;
\* and a lookup in a directory with children still returns from the same
\* table, without an enumeration, whatever has failed elsewhere.
C15_FailureIsolation == [][C15_Step]_vars

\* The enumeration of "docs" failed and so did an open of the video file,
\* after "vid" was realized and its file opened and probed; a later lookup
\* in "vid" returned from the table "vid" had before.
C15_Witness ==
    /\ "docs" \in enum_failed
    /\ contents["docs"] = NoChildren
    /\ last.op = "open" /\ last.raised /\ last.node = 3
    /\ Len(handles) = 1
    /\ fsize[3] = SourceLen(3)
    /\ tasks[TreeTask].dir = "vid"
    /\ tasks[TreeTask].pc = "returned"
    /\ ~tasks[TreeTask].enumerated
    /\ tasks[TreeTask].seen = FullTable("vid")
    /\ contents["."] = FullTable(".")

\* What C16 asks of one step: the step in which a getattr coroutine runs.
C16_Step ==
    \A t \in Tasks :
        (tasks[t].op = "getattr" /\ tasks[t].pc = "called"
            /\ tasks'[t].pc # "called") =>
            /\ tasks'[t].pc = "returned"
            /\ contents' = contents
            /\ enum_calls' = enum_calls
            /\ realized_ok' = realized_ok
            /\ get_requests' = get_requests
            /\ head_requests' = head_requests

\* C16: getattr on a directory node makes no remote call and does not
\* realize the node: every child table and the number of enumeration calls
\* are what they were, whether the node was realized or not.
C16_DirGetattrNoRemote == [][C16_Step]_vars

\* getattr has returned on "docs", which is still unrealized: no child, no
\* enumeration call made for it.
C16_Witness ==
    /\ tasks[TreeTask].op = "getattr"
    /\ tasks[TreeTask].pc = "returned"
    /\ tasks[TreeTask].dir = "docs"
    /\ contents["docs"] = NoChildren
    /\ enum_calls["docs"] = 0
    /\ IsRealized(contents["."])

====
